---- MODULE Spec2Model ----
(***************************************************************************)
(* Model of the useFaceLandmarkDetector hook                               *)
(* (src/robot_ui/src/utils/useDetector.ts).                                *)
(*                                                                         *)
(* One mounted instance of the hook is modelled together with the module   *)
(* level variables it shares (lastVideoTime, smileDegrees,                 *)
(* calibrationBlendValues), the calibration store it subscribes to, the    *)
(* window-expiry timers armed with setTimeout and the animation-frame      *)
(* callbacks scheduled with requestAnimationFrame.  A callback is a        *)
(* closure: it carries the values of the render that created it.           *)
(*                                                                         *)
(* JavaScript numbers are modelled as exact rationals [n, d] (d > 0)       *)
(* extended with the IEEE specials NaN = [0,0], +Infinity = [1,0] and      *)
(* -Infinity = [-1,0]; rounding error and the sign of zero are not         *)
(* modelled.                                                               *)
(***************************************************************************)
EXTENDS Integers, Sequences, FiniteSets, TLC

(***************************************************************************)
(* Bounds of the model.                                                    *)
(***************************************************************************)
MaxSamples == 2
MaxTimers == 2
MaxRaf == 3
MaxTime == 1

(***************************************************************************)
(* JavaScript numbers.                                                     *)
(***************************************************************************)
Abs(i) == IF i < 0 THEN -i ELSE i

Sign(i) == IF i < 0 THEN -1 ELSE IF i > 0 THEN 1 ELSE 0

RECURSIVE GCD(_, _)
GCD(a, b) == IF b = 0 THEN a ELSE GCD(b, a % b)

\* the rational n/d (d # 0) in lowest terms with a positive denominator
Rat(n, d) ==
    LET g == GCD(Abs(n), Abs(d))
    IN  [n |-> (Sign(d) * n) \div g, d |-> Abs(d) \div g]

NaN == [n |-> 0, d |-> 0]
PosInf == [n |-> 1, d |-> 0]
NegInf == [n |-> -1, d |-> 0]
Zero == [n |-> 0, d |-> 1]
One == [n |-> 1, d |-> 1]

IsNaN(x) == x.d = 0 /\ x.n = 0
IsFinite(x) == x.d > 0

\* a + b
NumAdd(a, b) ==
    IF IsNaN(a) \/ IsNaN(b) THEN NaN
    ELSE IF ~IsFinite(a) /\ ~IsFinite(b) THEN (IF a.n = b.n THEN a ELSE NaN)
    ELSE IF ~IsFinite(a) THEN a
    ELSE IF ~IsFinite(b) THEN b
    ELSE Rat(a.n * b.d + b.n * a.d, a.d * b.d)

NumNeg(a) == [n |-> -a.n, d |-> a.d]

\* a - b
NumSub(a, b) == NumAdd(a, NumNeg(b))

\* a / b: x/0 is +-Infinity, 0/0 and Infinity/Infinity are NaN
NumDiv(a, b) ==
    IF IsNaN(a) \/ IsNaN(b) THEN NaN
    ELSE IF ~IsFinite(a) /\ ~IsFinite(b) THEN NaN
    ELSE IF ~IsFinite(a) THEN (IF b.n < 0 THEN NumNeg(a) ELSE a)
    ELSE IF ~IsFinite(b) THEN Zero
    ELSE IF b.n = 0 THEN
        (IF a.n = 0 THEN NaN ELSE IF a.n > 0 THEN PosInf ELSE NegInf)
    ELSE Rat(a.n * b.d, a.d * b.n)

\* a < b for numbers other than NaN
NumLess(a, b) == a.n * b.d < b.n * a.d

\* Math.max(a, b) and Math.min(a, b)
MathMax(a, b) ==
    IF IsNaN(a) \/ IsNaN(b) THEN NaN ELSE IF NumLess(a, b) THEN b ELSE a

MathMin(a, b) ==
    IF IsNaN(a) \/ IsNaN(b) THEN NaN ELSE IF NumLess(b, a) THEN b ELSE a

\* values.reduce((acc, num) => acc + num, 0)
RECURSIVE ReduceSum(_)
ReduceSum(values) ==
    IF values = << >> THEN Zero
    ELSE NumAdd(ReduceSum(SubSeq(values, 1, Len(values) - 1)), values[Len(values)])

\* values.reduce(...) / values.length
Average(values) == NumDiv(ReduceSum(values), Rat(Len(values), 1))

(***************************************************************************)
(* Data: statuses, categories, frames, profiles.                           *)
(***************************************************************************)
\* CalibrationStatus
NOT_READY == "NOT_READY"
READY == "READY"
DOING == "DOING"
DONE == "DONE"
CalibrationStatus == {NOT_READY, READY, DOING, DONE}

\* CalibrationMode of the calibration store
NEUTRAL == "NEUTRAL"
SMILE == "SMILE"
CalibrationMode == {NEUTRAL, SMILE}

\* value of the video state when no element is attached, and the element
NoVideo == "null"
VideoNode == "video"

\* keys of DuringCalibrationBlendValues / FaceLandmarkerBlendValues
Categories == {"mouthPressLeft", "mouthPressRight", "mouthSmileLeft", "mouthSmileRight"}

\* let calibrationBlendValues = { mouthPressLeft: [], ... }
initialDuringCalibrationBlendValues == [k \in Categories |-> << >>]

\* initialBlendValues of the calibration store
initialBlendValues == [k \in Categories |-> Zero]

\* faceBlendshapes[0].categories of one detection: a face with the given
\* smile and press scores, and one category the hook does not know
Face(smile, press) ==
    << [categoryName |-> "jawOpen", score |-> Rat(1, 10)],
       [categoryName |-> "mouthPressLeft", score |-> press],
       [categoryName |-> "mouthPressRight", score |-> press],
       [categoryName |-> "mouthSmileLeft", score |-> smile],
       [categoryName |-> "mouthSmileRight", score |-> smile] >>

NeutralFace == Face(Rat(1, 5), Zero)
SmilingFace == Face(Rat(4, 5), Zero)

\* faces the detector can report
Faces == {NeutralFace, SmilingFace}

\* the face in front of the camera while Spec calibrates
SampledFaces == {NeutralFace}

\* results.faceBlendshapes.length === 0
NoFace == << >>

VARIABLES
    \* React state of the hook
    video, faceLandmarker, isInitialized, webcamRunning, webcamEnabled,
    calibrationFrames, calibrationStatus, predictionStatus, smileDegree,
    \* refs
    calibrateRequestRef, predictRequestRef,
    \* module-level variables
    lastVideoTime, smileDegrees, calibrationBlendValues,
    \* calibration store
    blendValuesFromCalibration, smileBlendValuesFromCalibration, calibrationStatusFromStore,
    \* pending setTimeout(stopCalibration, 2000) timers, oldest first; each
    \* holds the calibration mode its stopCalibration closure captured
    timers,
    \* pending requestAnimationFrame callbacks in scheduling order, and the
    \* number of them still to run in the display frame being processed
    raf, frameLeft,
    \* environment: video.currentTime, faceLandmarkerService.faceLandmarker
    \* defined, navigator.mediaDevices.getUserMedia present
    videoTime, serviceReady, webcamCapable,
    \* whether the hook is mounted, and whether the last render has seen the
    \* current calibrationBlendValues object (a useCallback dependency)
    mounted, buffersSeen,
    \* observations: the last operation, what it returned when it was
    \* stopPrediction(), and the blendFactors of the last updateBlendValues()
    lastOp, predicted, blendFactors

vars ==
    << video, faceLandmarker, isInitialized, webcamRunning, webcamEnabled,
       calibrationFrames, calibrationStatus, predictionStatus, smileDegree,
       calibrateRequestRef, predictRequestRef,
       lastVideoTime, smileDegrees, calibrationBlendValues,
       blendValuesFromCalibration, smileBlendValuesFromCalibration, calibrationStatusFromStore,
       timers, raf, frameLeft, videoTime, serviceReady, webcamCapable,
       mounted, buffersSeen, predicted, blendFactors, lastOp >>

\* variables outside the React component
moduleVars == << lastVideoTime, smileDegrees, calibrationBlendValues >>
storeVars == << blendValuesFromCalibration, smileBlendValuesFromCalibration, calibrationStatusFromStore >>
envVars == << videoTime, serviceReady, webcamCapable >>

(***************************************************************************)
(* The component: its state, its refs and the callbacks it has scheduled,  *)
(* as one record, so that a handler, the render that follows it and the    *)
(* effects of that render compose.                                         *)
(***************************************************************************)
Cur ==
    [ video |-> video, faceLandmarker |-> faceLandmarker,
      isInitialized |-> isInitialized, webcamRunning |-> webcamRunning,
      webcamEnabled |-> webcamEnabled, calibrationFrames |-> calibrationFrames,
      calibrationStatus |-> calibrationStatus,
      predictionStatus |-> predictionStatus, smileDegree |-> smileDegree,
      calibrateRequestRef |-> calibrateRequestRef,
      predictRequestRef |-> predictRequestRef,
      raf |-> raf, buffersSeen |-> buffersSeen ]

Commit(c) ==
    /\ video' = c.video
    /\ faceLandmarker' = c.faceLandmarker
    /\ isInitialized' = c.isInitialized
    /\ webcamRunning' = c.webcamRunning
    /\ webcamEnabled' = c.webcamEnabled
    /\ calibrationFrames' = c.calibrationFrames
    /\ calibrationStatus' = c.calibrationStatus
    /\ predictionStatus' = c.predictionStatus
    /\ smileDegree' = c.smileDegree
    /\ calibrateRequestRef' = c.calibrateRequestRef
    /\ predictRequestRef' = c.predictRequestRef
    /\ raf' = c.raf
    /\ buffersSeen' = c.buffersSeen

\* the React state of a component record
StateOf(c) ==
    << c.video, c.faceLandmarker, c.isInitialized, c.webcamRunning,
       c.webcamEnabled, c.calibrationFrames, c.calibrationStatus,
       c.predictionStatus, c.smileDegree >>

\* a setState call changes nothing once the component is unmounted
SetState(c) ==
    IF mounted THEN c
    ELSE [c EXCEPT !.video = video, !.faceLandmarker = faceLandmarker,
                   !.isInitialized = isInitialized,
                   !.webcamRunning = webcamRunning,
                   !.webcamEnabled = webcamEnabled,
                   !.calibrationFrames = calibrationFrames,
                   !.calibrationStatus = calibrationStatus,
                   !.predictionStatus = predictionStatus,
                   !.smileDegree = smileDegree]

(***************************************************************************)
(* requestAnimationFrame / cancelAnimationFrame.                           *)
(*                                                                         *)
(* A handle is used only to cancel the callback it names, so a ref is      *)
(* modelled by the position in raf of the callback whose handle it holds,  *)
(* and by 0 when it is unset or its callback has already run or been       *)
(* cancelled (cancelAnimationFrame of such a handle does nothing).         *)
(***************************************************************************)
\* the sequence q without its element at position i (q itself for i = 0)
RemoveAt(q, i) ==
    [j \in 1..(Len(q) - (IF i \in 1..Len(q) THEN 1 ELSE 0)) |->
        IF i = 0 \/ j < i THEN q[j] ELSE q[j + 1]]

\* where a ref points once the callback at position i is gone
Shift(ref, i) == IF i = 0 \/ ref < i THEN ref ELSE IF ref = i THEN 0 ELSE ref - 1

\* cancelAnimationFrame of the handle that names position i
CancelAnimationFrame(c, i) ==
    [c EXCEPT !.raf = RemoveAt(@, i),
              !.calibrateRequestRef = Shift(@, i),
              !.predictRequestRef = Shift(@, i)]

\* the browser takes the oldest pending callback off to run it
TakeOldest(c) == CancelAnimationFrame(c, 1)

\* the doCalibration closure of a render
DoCalibrationOf(c) ==
    [ kind |-> "doCalibration", video |-> c.video,
      calibrationStatus |-> c.calibrationStatus,
      calibrationFrames |-> c.calibrationFrames ]

\* the predictWebcam closure: useCallback(..., []) keeps the function of the
\* first render, in which video is null
PredictWebcamOf(c) ==
    [ kind |-> "predictWebcam", video |-> NoVideo,
      calibrationStatus |-> NOT_READY, calibrationFrames |-> 0 ]

\* calibrateRequestRef.current = requestAnimationFrame(closure)
RequestCalibrate(c, closure) ==
    [c EXCEPT !.raf = Append(@, closure),
              !.calibrateRequestRef = Len(c.raf) + 1]

\* predictRequestRef.current = requestAnimationFrame(closure)
RequestPredict(c, closure) ==
    [c EXCEPT !.raf = Append(@, closure),
              !.predictRequestRef = Len(c.raf) + 1]

(***************************************************************************)
(* Effects.                                                                *)
(***************************************************************************)
\* isWebcamIsEnabled()
isWebcamIsEnabled == webcamCapable

\* initFacelandmarks(): it has no await, so it runs to its end when called
initFacelandmarks(c) ==
    LET c1 == [c EXCEPT !.faceLandmarker = serviceReady, !.isInitialized = TRUE]
    IN  IF isWebcamIsEnabled
        THEN [c1 EXCEPT !.calibrationStatus = READY, !.predictionStatus = READY,
                        !.webcamRunning = TRUE, !.webcamEnabled = TRUE]
        ELSE c1

\* cleanup of the effect on [initFacelandmarks, video]; the effect returns it
\* only when it ran with a video attached
Cleanup(c, oldVideo) ==
    IF oldVideo = NoVideo THEN c
    ELSE LET c1 == CancelAnimationFrame(c, c.calibrateRequestRef)
         IN  CancelAnimationFrame(c1, c1.predictRequestRef)

\* useEffect on [calibrationStatus, doCalibration]; doCalibration is a new
\* function when one of its dependencies [calibrationBlendValues,
\* calibrationFrames, calibrationStatus, video] changed
CalibrationLoopEffect(old, c) ==
    LET doCalibrationChanged ==
            \/ ~c.buffersSeen
            \/ c.calibrationFrames # old.calibrationFrames
            \/ c.calibrationStatus # old.calibrationStatus
            \/ c.video # old.video
    IN  IF doCalibrationChanged /\ c.calibrationStatus = DOING
        THEN RequestCalibrate(c, DoCalibrationOf(c))
        ELSE c

\* useEffect on [predictionStatus, predictWebcam]
PredictionLoopEffect(old, c) ==
    IF c.predictionStatus # old.predictionStatus /\ c.predictionStatus = DOING
    THEN RequestPredict(c, PredictWebcamOf(c))
    ELSE c

\* useEffect on [initFacelandmarks, video]
VideoEffect(old, c) ==
    IF c.video # old.video /\ c.video # NoVideo THEN initFacelandmarks(c) ELSE c

\* The render that follows a handler which took the component from old to c,
\* and the effects of that render: the cleanups first, then the effects in
\* the order of the source.  The statuses initFacelandmarks sets cause one
\* more render, in which no loop effect finds DOING.  Nothing is rendered
\* when no state changed or the component is unmounted.
Render(old, c, storeChanged) ==
    IF ~mounted \/ (StateOf(old) = StateOf(c) /\ ~storeChanged) THEN c
    ELSE LET c1 == IF c.video # old.video THEN Cleanup(c, old.video) ELSE c
             c2 == CalibrationLoopEffect(old, c1)
             c3 == PredictionLoopEffect(old, c2)
             c4 == VideoEffect(old, c3)
             c5 == CalibrationLoopEffect(c3, [c4 EXCEPT !.buffersSeen = TRUE])
             c6 == PredictionLoopEffect(c3, c5)
         IN  c6

(***************************************************************************)
(* Calibration.                                                            *)
(***************************************************************************)
\* the for-loop of doCalibration over faceBlendshapes[0].categories
RECURSIVE PushScores(_, _)
PushScores(buffers, categories) ==
    IF categories = << >> THEN buffers
    ELSE LET blendName == Head(categories).categoryName
             blendScore == Head(categories).score
             pushed == IF blendName \in DOMAIN buffers
                       THEN [buffers EXCEPT ![blendName] = Append(@, blendScore)]
                       ELSE buffers
         IN  PushScores(pushed, Tail(categories))

\* storeCalibrations storing the sum of every sample list, not divided by
\* the number of samples
tmpBlendValuesSum(buffers) ==
    [key \in DOMAIN initialBlendValues \cup DOMAIN buffers |->
        IF key \in DOMAIN buffers THEN ReduceSum(buffers[key])
        ELSE initialBlendValues[key]]

\* the profile storeCalibrations computes: the average of every sample list
\* written over a copy of initialBlendValues
tmpBlendValues(buffers) ==
    [key \in DOMAIN initialBlendValues \cup DOMAIN buffers |->
        IF key \in DOMAIN buffers THEN Average(buffers[key])
        ELSE initialBlendValues[key]]

\* storeCalibrations() of a render in which the store's status was mode
storeCalibrations(mode) ==
    /\ blendValuesFromCalibration' =
          IF mode = NEUTRAL THEN tmpBlendValues(calibrationBlendValues)
          ELSE blendValuesFromCalibration
    /\ smileBlendValuesFromCalibration' =
          IF mode = NEUTRAL THEN smileBlendValuesFromCalibration
          ELSE tmpBlendValues(calibrationBlendValues)
    /\ calibrationStatusFromStore' = calibrationStatusFromStore

\* the body of stopCalibration() of a render in which the store's status
\* was mode
stopCalibrationBody(mode) ==
    LET c == SetState([Cur EXCEPT !.calibrationStatus = DONE, !.video = NoVideo])
    IN  /\ storeCalibrations(mode)
        /\ Commit(Render(Cur, c, TRUE))

\* what stopPrediction() returns; NotCalled when the last operation was
\* another one
NotCalled == [called |-> FALSE, defined |-> FALSE, value |-> NaN]
Undefined == [called |-> TRUE, defined |-> FALSE, value |-> NaN]
Returned(x) == [called |-> TRUE, defined |-> TRUE, value |-> x]

\* whether every sample list still has room for one more sample
HasRoom(buffers) == \A k \in DOMAIN buffers : Len(buffers[k]) < MaxSamples

\* What detectForVideo may return for a new video frame.  A face is
\* reported only while the bounds leave room for the sample it adds and
\* for the two callbacks its processing may schedule.
Detections(frames) ==
    {NoFace} \cup
        (IF /\ HasRoom(calibrationBlendValues)
            /\ frames < MaxSamples
            /\ Len(raf) <= MaxRaf - 1
         THEN SampledFaces ELSE {})

\* the step keeps the pending callbacks within the bound of the model
RafBounded == Len(raf') <= MaxRaf

\* doCalibration() calling detectForVideo on every tick, without the
\* comparison of lastVideoTime with video.currentTime
doCalibrationEveryTick(cb, c) ==
    IF ~serviceReady \/ cb.video = NoVideo THEN
        /\ Commit(c)
        /\ UNCHANGED << lastVideoTime, calibrationBlendValues >>
    ELSE
        /\ lastVideoTime' = videoTime
        /\ \E faceBlendshapes \in Detections(cb.calibrationFrames) :
              IF faceBlendshapes = NoFace THEN
                  /\ Commit(c)
                  /\ UNCHANGED calibrationBlendValues
              ELSE
                  /\ calibrationBlendValues' =
                        PushScores(calibrationBlendValues, faceBlendshapes)
                  /\ LET c1 == SetState([c EXCEPT !.calibrationFrames =
                                                      cb.calibrationFrames + 1])
                         c2 == IF cb.calibrationStatus = DOING
                               THEN RequestCalibrate(c1, cb)
                               ELSE c1
                     IN  Commit(Render(c, c2, FALSE))

\* doCalibration() as the closure cb, run after cb was taken off the pending
\* callbacks (c)
doCalibration(cb, c) ==
    IF ~serviceReady \/ cb.video = NoVideo THEN
        /\ Commit(c)
        /\ UNCHANGED << lastVideoTime, calibrationBlendValues >>
    ELSE IF lastVideoTime = videoTime THEN
        \* results stays null
        /\ Commit(c)
        /\ UNCHANGED << lastVideoTime, calibrationBlendValues >>
    ELSE
        /\ lastVideoTime' = videoTime
        /\ \E faceBlendshapes \in Detections(cb.calibrationFrames) :
              IF faceBlendshapes = NoFace THEN
                  /\ Commit(c)
                  /\ UNCHANGED calibrationBlendValues
              ELSE
                  /\ calibrationBlendValues' =
                        PushScores(calibrationBlendValues, faceBlendshapes)
                  /\ LET c1 == SetState([c EXCEPT !.calibrationFrames =
                                                      cb.calibrationFrames + 1])
                         c2 == IF cb.calibrationStatus = DOING
                               THEN RequestCalibrate(c1, cb)
                               ELSE c1
                     IN  Commit(Render(c, c2, FALSE))

\* startCalibration() without its check of video
StartCalibrationUnchecked ==
    /\ mounted /\ frameLeft = 0
    /\ Len(timers) < MaxTimers
    /\ calibrationBlendValues' = initialDuringCalibrationBlendValues
    /\ LET c == [Cur EXCEPT !.calibrationFrames = 0,
                            !.calibrationStatus = DOING,
                            !.buffersSeen = FALSE]
       IN  Commit(Render(Cur, c, FALSE))
    /\ timers' = Append(timers, calibrationStatusFromStore)
    /\ RafBounded
    /\ lastOp' = "startCalibration"
    /\ UNCHANGED << lastVideoTime, smileDegrees, frameLeft, blendFactors >>
    /\ UNCHANGED << storeVars, envVars, mounted >>
    /\ predicted' = NotCalled

\* startCalibration()
StartCalibration ==
    /\ mounted /\ frameLeft = 0
    /\ IF video = NoVideo THEN
          /\ lastOp' = "startCalibration: video not loaded"
          /\ UNCHANGED << video, faceLandmarker, isInitialized, webcamRunning,
                          webcamEnabled, calibrationFrames, calibrationStatus,
                          predictionStatus, smileDegree, calibrateRequestRef,
                          predictRequestRef, raf, buffersSeen,
                          calibrationBlendValues, timers >>
       ELSE
          /\ Len(timers) < MaxTimers
          /\ calibrationBlendValues' = initialDuringCalibrationBlendValues
          /\ LET c == [Cur EXCEPT !.calibrationFrames = 0,
                                  !.calibrationStatus = DOING,
                                  !.buffersSeen = FALSE]
             IN  Commit(Render(Cur, c, FALSE))
          /\ timers' = Append(timers, calibrationStatusFromStore)
          /\ RafBounded
          /\ lastOp' = "startCalibration"
    /\ UNCHANGED << lastVideoTime, smileDegrees, frameLeft, blendFactors >>
    /\ UNCHANGED << storeVars, envVars, mounted >>
    /\ predicted' = NotCalled

\* stopCalibration(), called by the consumer
StopCalibration ==
    /\ mounted /\ frameLeft = 0
    /\ stopCalibrationBody(calibrationStatusFromStore)
    /\ lastOp' = "stopCalibration"
    /\ UNCHANGED << moduleVars, envVars, timers, frameLeft, mounted,
                    blendFactors >>
    /\ predicted' = NotCalled

\* the oldest setTimeout(stopCalibration, 2000) fires; equal delays fire in
\* the order they were armed
WindowExpiry ==
    /\ frameLeft = 0
    /\ timers # << >>
    /\ stopCalibrationBody(Head(timers))
    /\ timers' = Tail(timers)
    /\ lastOp' = "windowExpiry"
    /\ UNCHANGED << moduleVars, envVars, frameLeft, mounted, blendFactors >>
    /\ predicted' = NotCalled

\* setVideoNode(video)
SetVideoNode ==
    /\ mounted /\ frameLeft = 0
    /\ Commit(Render(Cur, [Cur EXCEPT !.video = VideoNode], FALSE))
    /\ RafBounded
    /\ lastOp' = "setVideoNode"
    /\ UNCHANGED << moduleVars, storeVars, envVars, timers, frameLeft, mounted, blendFactors >>
    /\ predicted' = NotCalled

(***************************************************************************)
(* Prediction.                                                             *)
(***************************************************************************)
\* the for-loop of updateBlendValues over faceBlendshapes[0].categories;
\* reading a key an object does not have gives undefined, and arithmetic on
\* undefined gives NaN
RECURSIVE AddFactors(_, _, _, _)
AddFactors(factors, categories, base, smile) ==
    IF categories = << >> THEN factors
    ELSE LET blendName == Head(categories).categoryName
             blendScore == Head(categories).score
             smileValue == IF blendName \in DOMAIN smile THEN smile[blendName] ELSE NaN
             added ==
                 IF blendName \in DOMAIN factors /\ blendName \in DOMAIN base
                 THEN [factors EXCEPT ![blendName] =
                          NumAdd(@, NumDiv(blendScore,
                                           NumSub(smileValue, base[blendName])))]
                 ELSE factors
         IN  AddFactors(added, Tail(categories), base, smile)

\* the blendFactors updateBlendValues passes to calculateMood, for the
\* baseline profile base and the smile profile smile of the store
updateBlendValues(faceBlendshapes, base, smile) ==
    AddFactors([k \in Categories |-> Zero], faceBlendshapes, base, smile)

\* the first value calculateMood assigns to tmpSmileDegree
ComputedSmileDegree(blendValues) ==
    NumDiv(NumAdd(blendValues["mouthSmileLeft"], blendValues["mouthSmileRight"]),
           Rat(200, 1))

\* calculateMood without its clamp to [0,1]
calculateMoodUnclamped(blendValues, sd) == ComputedSmileDegree(blendValues)

\* the value calculateMood pushes and sets: tmpSmileDegree is assigned the
\* computed value and is then assigned again from the smileDegree state sd
calculateMood(blendValues, sd) ==
    LET tmpSmileDegree == ComputedSmileDegree(blendValues)
    IN  MathMin(One, MathMax(Zero, sd))

\* lines 241-244 of predictWebcam for a detected face, in a render whose
\* profiles are base and smile and whose smileDegree state is sd
PredictFace(c, faceBlendshapes, base, smile, sd) ==
    LET factors == updateBlendValues(faceBlendshapes, base, smile)
        tmpSmileDegree == calculateMood(factors, sd)
    IN  /\ blendFactors' = factors
        /\ smileDegrees' = Append(smileDegrees, tmpSmileDegree)
        /\ Commit(Render(c, SetState([c EXCEPT !.smileDegree = tmpSmileDegree]), FALSE))

\* predictWebcam() as the closure cb, run after cb was taken off the pending
\* callbacks (c).  The closure is the one of the first render: its profiles
\* are the store's initial ones and its smileDegree is 0.
predictWebcam(cb, c) ==
    IF ~serviceReady \/ cb.video = NoVideo THEN
        /\ Commit(c)
        /\ UNCHANGED << lastVideoTime, smileDegrees, blendFactors >>
    ELSE LET c1 == RequestPredict(c, cb)
         IN  IF lastVideoTime = videoTime THEN
                 /\ Commit(c1)
                 /\ UNCHANGED << lastVideoTime, smileDegrees, blendFactors >>
             ELSE
                 /\ lastVideoTime' = videoTime
                 /\ \E faceBlendshapes \in {NoFace} \cup Faces :
                       IF faceBlendshapes = NoFace THEN
                           /\ Commit(c1)
                           /\ UNCHANGED << smileDegrees, blendFactors >>
                       ELSE PredictFace(c1, faceBlendshapes, initialBlendValues,
                                        initialBlendValues, Zero)

\* startPrediction()
StartPrediction ==
    /\ mounted /\ frameLeft = 0
    /\ smileDegrees' = << >>
    /\ Commit(Render(Cur, [Cur EXCEPT !.predictionStatus = DOING], FALSE))
    /\ RafBounded
    /\ lastOp' = "startPrediction"
    /\ UNCHANGED << lastVideoTime, calibrationBlendValues, storeVars, envVars,
                    timers, frameLeft, mounted, blendFactors >>
    /\ predicted' = NotCalled

\* stopPrediction()
StopPrediction ==
    /\ mounted /\ frameLeft = 0
    /\ IF ~faceLandmarker \/ video = NoVideo THEN
          /\ predicted' = Undefined
          /\ Commit(Cur)
       ELSE
          /\ predicted' = Returned(Average(smileDegrees))
          /\ Commit(Render(Cur, [Cur EXCEPT !.calibrationStatus = DONE], FALSE))
    /\ lastOp' = "stopPrediction"
    /\ UNCHANGED << moduleVars, storeVars, envVars, timers, frameLeft, mounted,
                    blendFactors >>

(***************************************************************************)
(* The display frame, the environment, teardown.                           *)
(***************************************************************************)
\* The browser runs the oldest pending animation-frame callback.  The
\* callbacks pending when a display frame begins all run in that frame,
\* with nothing else in between; those they schedule run in a later one.
AnimationFrame ==
    /\ raf # << >>
    /\ frameLeft' = (IF frameLeft = 0 THEN Len(raf) ELSE frameLeft) - 1
    /\ LET cb == Head(raf)
           c == TakeOldest(Cur)
       IN  IF cb.kind = "doCalibration"
           THEN doCalibration(cb, c) /\ UNCHANGED << smileDegrees, blendFactors >>
           ELSE predictWebcam(cb, c) /\ UNCHANGED calibrationBlendValues
    /\ lastOp' = "animationFrame"
    /\ UNCHANGED << storeVars, envVars, timers, mounted >>
    /\ predicted' = NotCalled

\* the video plays: video.currentTime moves on
AdvanceVideo ==
    /\ frameLeft = 0
    /\ videoTime < MaxTime
    /\ videoTime' = videoTime + 1
    /\ lastOp' = "advanceVideo"
    /\ Commit(Cur)
    /\ UNCHANGED << moduleVars, storeVars, serviceReady, webcamCapable, timers,
                    frameLeft, mounted, blendFactors >>
    /\ predicted' = NotCalled

\* The application moves the calibration store from the neutral pass to
\* the smiling pass (the two passes run one after the other); the hook
\* subscribes to the store's status and renders again.
SetCalibrationMode ==
    /\ mounted /\ frameLeft = 0
    /\ calibrationStatusFromStore = NEUTRAL
    /\ calibrationStatusFromStore' = SMILE
    /\ Commit(Render(Cur, Cur, TRUE))
    /\ RafBounded
    /\ lastOp' = "setCalibrationMode"
    /\ UNCHANGED << moduleVars, blendValuesFromCalibration,
                    smileBlendValuesFromCalibration, envVars, timers,
                    frameLeft, mounted, blendFactors >>
    /\ predicted' = NotCalled

\* the component unmounts: the cleanup of the video effect runs
Unmount ==
    /\ mounted /\ frameLeft = 0
    /\ mounted' = FALSE
    /\ Commit(Cleanup(Cur, video))
    /\ lastOp' = "unmount"
    /\ UNCHANGED << moduleVars, storeVars, envVars, timers, frameLeft,
                    blendFactors >>
    /\ predicted' = NotCalled

(***************************************************************************)
(* The hook after its first render, in a page whose store is fresh.        *)
(***************************************************************************)
Init ==
    /\ video = NoVideo
    /\ faceLandmarker = FALSE
    /\ isInitialized = FALSE
    /\ webcamRunning = FALSE
    /\ webcamEnabled = FALSE
    /\ calibrationFrames = 0
    /\ calibrationStatus = NOT_READY
    /\ predictionStatus = NOT_READY
    /\ smileDegree = Zero
    /\ calibrateRequestRef = 0
    /\ predictRequestRef = 0
    /\ lastVideoTime = -1
    /\ smileDegrees = << >>
    /\ calibrationBlendValues = initialDuringCalibrationBlendValues
    /\ blendValuesFromCalibration = initialBlendValues
    /\ smileBlendValuesFromCalibration = initialBlendValues
    /\ calibrationStatusFromStore = NEUTRAL
    /\ timers = << >>
    /\ raf = << >>
    /\ frameLeft = 0
    /\ videoTime = 0
    /\ serviceReady \in BOOLEAN
    /\ webcamCapable \in BOOLEAN
    /\ mounted = TRUE
    /\ buffersSeen = TRUE
    /\ predicted = NotCalled
    /\ blendFactors = [k \in Categories |-> Zero]
    /\ lastOp = "mount"

Next ==
    \/ SetVideoNode
    \/ StartCalibration
    \/ StopCalibration
    \/ WindowExpiry
    \/ StartPrediction
    \/ StopPrediction
    \/ AnimationFrame
    \/ AdvanceVideo
    \/ SetCalibrationMode
    \/ Unmount

Spec == Init /\ [][Next]_vars

TypeOK ==
    /\ video \in {NoVideo, VideoNode}
    /\ calibrationStatus \in CalibrationStatus
    /\ predictionStatus \in CalibrationStatus
    /\ calibrationStatusFromStore \in CalibrationMode
    /\ Len(raf) <= MaxRaf
    /\ calibrateRequestRef \in 0..Len(raf)
    /\ predictRequestRef \in 0..Len(raf)
    /\ frameLeft \in 0..MaxRaf
    /\ Len(timers) <= MaxTimers
    /\ lastVideoTime \in -1..MaxTime
    /\ \A k \in Categories : Len(calibrationBlendValues[k]) <= MaxSamples

(***************************************************************************)
(* The prediction functions on their inputs.                               *)
(*                                                                         *)
(* The predictWebcam closure never gets past its check of video, so Spec   *)
(* never applies updateBlendValues and calculateMood.  PredictionSpec      *)
(* applies them, as a render holding the current values would, to the      *)
(* profiles a calibration can store and to the faces a detector can        *)
(* report.                                                                 *)
(***************************************************************************)
\* the sample lists after the faces of a sequence were pushed in turn
RECURSIVE PushAll(_, _)
PushAll(buffers, faces) ==
    IF faces = << >> THEN buffers
    ELSE PushAll(PushScores(buffers, Head(faces)), Tail(faces))

\* the profiles a calibration pass can store, and the store's initial one
Profiles ==
    {initialBlendValues} \cup
        { tmpBlendValues(PushAll(initialDuringCalibrationBlendValues, faces)) :
            faces \in UNION { [1..n -> Faces] : n \in 0..MaxSamples } }

\* faces seen during prediction: the calibration ones, a half smile, a face
\* with no smile at all, and a malformed one with scores outside [0,1]
LiveFaces ==
    Faces \cup {Face(Rat(1, 2), Zero), Face(Zero, Zero), Face(Rat(3, 2), Rat(-1, 2))}

PredictionInit ==
    /\ video = VideoNode
    /\ faceLandmarker = TRUE
    /\ isInitialized = TRUE
    /\ webcamRunning = TRUE
    /\ webcamEnabled = TRUE
    /\ calibrationFrames = 0
    /\ calibrationStatus = READY
    /\ predictionStatus = READY
    /\ smileDegree = Zero
    /\ calibrateRequestRef = 0
    /\ predictRequestRef = 0
    /\ lastVideoTime = -1
    /\ smileDegrees = << >>
    /\ calibrationBlendValues = initialDuringCalibrationBlendValues
    /\ blendValuesFromCalibration \in Profiles
    /\ smileBlendValuesFromCalibration \in Profiles
    /\ calibrationStatusFromStore = SMILE
    /\ timers = << >>
    /\ raf = << >>
    /\ frameLeft = 0
    /\ videoTime = 0
    /\ serviceReady = TRUE
    /\ webcamCapable = TRUE
    /\ mounted = TRUE
    /\ buffersSeen = TRUE
    /\ predicted = NotCalled
    /\ blendFactors = [k \in Categories |-> Zero]
    /\ lastOp = "mount"

\* updateBlendValues(faceBlendshapes) of the current render
PredictionFrame ==
    /\ frameLeft = 0
    /\ Len(smileDegrees) < MaxSamples
    /\ \E faceBlendshapes \in LiveFaces :
          PredictFace(Cur, faceBlendshapes, blendValuesFromCalibration,
                      smileBlendValuesFromCalibration, smileDegree)
    /\ lastOp' = "updateBlendValues"
    /\ predicted' = NotCalled
    /\ UNCHANGED << lastVideoTime, calibrationBlendValues, storeVars, envVars,
                    timers, frameLeft, mounted >>

PredictionNext ==
    \/ PredictionFrame
    \/ StartPrediction
    \/ StopPrediction
    \/ AnimationFrame

PredictionSpec == PredictionInit /\ [][PredictionNext]_vars

(***************************************************************************)
(* Claims.                                                                 *)
(***************************************************************************)
\* Math.min(1, Math.max(0, x))
Clamp01(x) == MathMin(One, MathMax(Zero, x))

\* the mean of a list of samples, 0 for the empty list
MeanOrZero(values) == IF values = << >> THEN Zero ELSE Average(values)

\* the profile a finalize step running in the given mode has written
StoredBy(mode) ==
    IF mode = NEUTRAL THEN blendValuesFromCalibration'
    ELSE smileBlendValuesFromCalibration'

\* C1: startCalibration() invoked while the calibration status is DOING is
\* a no-op: it leaves the status, the per-category sample lists and the
\* pending window-expiry timers unchanged.
C1_StartWhileDoingIsNoOp ==
    [][(StartCalibration /\ calibrationStatus = DOING)
          => UNCHANGED << calibrationStatus, calibrationBlendValues, timers >>]_vars

\* C2: the calibration status enters DOING only from READY or DONE; a
\* startCalibration() while NOT_READY does not start a pass.
C2_DoingOnlyFromReadyOrDone ==
    [][(calibrationStatus # DOING /\ calibrationStatus' = DOING)
          => calibrationStatus \in {READY, DONE}]_vars

\* C3: a pass is finalized once: after an early stopCalibration() the
\* window expiry armed by the pass's start causes no further DONE
\* transition, detaches no video and stores no profile.
C3_ExpiryAfterStopDoesNothing ==
    [][(WindowExpiry /\ lastOp = "stopCalibration")
          => UNCHANGED << calibrationStatus, video, blendValuesFromCalibration,
                          smileBlendValuesFromCalibration >>]_vars

\* C4: the smile-degree sample a prediction frame appends is the value
\* computed from that frame, clamp01((factor[mouthSmileLeft] +
\* factor[mouthSmileRight]) / 200) of the frame's blend factors (stated for
\* the frames whose smile factors are finite numbers).
C4_SampleIsComputedFromFrame ==
    (/\ lastOp = "updateBlendValues"
     /\ IsFinite(blendFactors["mouthSmileLeft"])
     /\ IsFinite(blendFactors["mouthSmileRight"]))
        => smileDegrees[Len(smileDegrees)] = Clamp01(ComputedSmileDegree(blendFactors))

\* C5: stopPrediction() in a started session returns the arithmetic mean of
\* the samples collected since startPrediction(), and 0 when there are none.
C5_StopPredictionReturnsMean ==
    (predicted.called /\ predictionStatus = DOING /\ faceLandmarker /\ video # NoVideo)
        => predicted.defined /\ predicted.value = MeanOrZero(smileDegrees)

\* C6: stopPrediction() in a started session marks the prediction session
\* DONE.
C6_StopPredictionMarksDone ==
    [][(StopPrediction /\ predictionStatus = DOING /\ faceLandmarker /\ video # NoVideo)
          => predictionStatus' = DONE]_vars

\* C7: finalizing a running pass stores a defined zero for every category
\* that has no sample.
C7_EmptyCategoryStoresZero ==
    [][/\ (StopCalibration /\ calibrationStatus = DOING) =>
            \A k \in Categories :
                calibrationBlendValues[k] = << >>
                    => StoredBy(calibrationStatusFromStore)[k] = Zero
       /\ (WindowExpiry /\ calibrationStatus = DOING) =>
            \A k \in Categories :
                calibrationBlendValues[k] = << >>
                    => StoredBy(Head(timers))[k] = Zero]_vars

\* C8: a category whose smile-profile and baseline-profile scores are equal
\* (their difference, the denominator, is 0) contributes nothing to the
\* blend factors of a frame: its factor stays 0.
C8_ZeroDenominatorContributesNothing ==
    lastOp = "updateBlendValues"
        => \A k \in Categories :
              NumSub(smileBlendValuesFromCalibration[k],
                     blendValuesFromCalibration[k]) = Zero
                  => blendFactors[k] = Zero

\* C9: the calibration status and the prediction status are never both
\* DOING.
C9_AtMostOneLoopActive ==
    ~(calibrationStatus = DOING /\ predictionStatus = DOING)

\* C10: after teardown (unmount, or the video detached by stopCalibration)
\* no scheduled callback is left to run, so no sample is fed to the
\* calibration buffers while the hook is torn down.
C10_NoSamplingAfterTeardown ==
    [][(~mounted \/ video = NoVideo) => UNCHANGED calibrationBlendValues]_vars

\* the calibration mode of the running pass: the mode its startCalibration()
\* found in the store, which the timer that start armed (the youngest one)
\* carries
PassMode == timers[Len(timers)]

\* a calibration pass is running, and the store is still in the mode the
\* pass was started in
PassRunsInItsMode ==
    /\ mounted
    /\ calibrationStatus = DOING
    /\ timers # << >>
    /\ PassMode = calibrationStatusFromStore

\* C11: finalizing a calibration pass stores the profile keyed by the
\* calibration mode: a pass run in NEUTRAL mode leaves the smile profile
\* unchanged and a pass run in smiling mode leaves the baseline profile
\* unchanged.
C11_ProfileKeyedByPassMode ==
    [][((StopCalibration \/ WindowExpiry) /\ PassRunsInItsMode)
          => IF PassMode = NEUTRAL
             THEN UNCHANGED smileBlendValuesFromCalibration
             ELSE UNCHANGED blendValuesFromCalibration]_vars

\* x is a number of the interval [0,1]
InUnit(x) == IsFinite(x) /\ ~NumLess(x, Zero) /\ ~NumLess(One, x)

\* C12: every smile-degree sample appended to the aggregate, and the
\* smileDegree status field, is within [0,1] in every reachable state,
\* whatever the blendshape scores of the frames (negative or above 1
\* included).
C12_SmileDegreeInUnitInterval ==
    /\ InUnit(smileDegree)
    /\ \A i \in 1..Len(smileDegrees) : InUnit(smileDegrees[i])

\* a frame whose computed smile degree lies outside [0,1] (or is not a
\* number) was processed and its sample appended
C12_OutOfRangeFrameSampled ==
    /\ lastOp = "updateBlendValues"
    /\ smileDegrees # << >>
    /\ ~InUnit(ComputedSmileDegree(blendFactors))

\* both calibration passes have stored their profile: a stored profile
\* differs from the store's initial one, since no calibrated face has all
\* its scores 0
BothProfilesStored ==
    /\ blendValuesFromCalibration # initialBlendValues
    /\ smileBlendValuesFromCalibration # initialBlendValues

RECURSIVE SumOf(_)
SumOf(values) ==
    IF values = << >> THEN Zero ELSE NumAdd(Head(values), SumOf(Tail(values)))

\* the arithmetic mean of a non-empty list of numbers
MeanOf(values) == NumDiv(SumOf(values), Rat(Len(values), 1))

\* stored holds, for every category with a sample, the mean of the samples
\* in the lists, which is the sample itself when they are all equal
StoresMeans(stored) ==
    \A k \in Categories :
        LET samples == calibrationBlendValues[k]
        IN  samples # << >> =>
               /\ stored[k] = MeanOf(samples)
               /\ (\A i \in 1..Len(samples) : samples[i] = samples[1])
                     => stored[k] = samples[1]

C15_StartWithoutVideoIsNoOp ==
    [][(StartCalibration /\ video = NoVideo)
          => /\ lastOp' = "startCalibration: video not loaded"
             /\ UNCHANGED << calibrationStatus, calibrationFrames,
                             calibrationBlendValues, timers, raf,
                             calibrateRequestRef >>]_vars

\* startCalibration() has returned early because no video was attached,
\* while the timer of an earlier start was pending
C15_StartedWithoutVideo ==
    /\ lastOp = "startCalibration: video not loaded"
    /\ video = NoVideo
    /\ timers # << >>

\* a doCalibration callback is pending in the given callbacks
CalibrationPending(callbacks) ==
    \E i \in 1..Len(callbacks) : callbacks[i].kind = "doCalibration"

\* the display frame runs an iteration of the calibration loop that gets
\* past its checks of the service and the video, in a pass that is DOING,
\* for the closure as well, and stays DOING
CalibrationIteration ==
    /\ AnimationFrame
    /\ Head(raf).kind = "doCalibration"
    /\ Head(raf).calibrationStatus = DOING
    /\ Head(raf).video # NoVideo
    /\ serviceReady /\ mounted
    /\ calibrationStatus = DOING /\ calibrationStatus' = DOING

\* C16: while the pass is DOING, every iteration of the calibration loop
\* leaves the loop scheduled for the next display frame, also an iteration
\* in which no frame was produced (video time unchanged, or no face found):
\* the loop does not die before the pass leaves DOING.
C16_CalibrationLoopKeepsRunning ==
    [][CalibrationIteration => CalibrationPending(raf')]_vars

\* the display frame runs a callback of a loop whose session is over: a
\* doCalibration callback once the calibration status is DONE, or a
\* predictWebcam callback right after stopPrediction()
IterationAfterSessionEnd ==
    /\ AnimationFrame
    /\ \/ Head(raf).kind = "doCalibration" /\ calibrationStatus = DONE
       \/ Head(raf).kind = "predictWebcam" /\ lastOp = "stopPrediction"

\* C17: once the owning session has left DOING, its loop stops
\* rescheduling: a callback of the loop that still runs schedules no
\* further frame callback (the pending callbacks only lose the one that
\* ran).
C17_NoRescheduleAfterSessionEnd ==
    [][IterationAfterSessionEnd => Len(raf') < Len(raf)]_vars

\* the step fed a sample to a consumer: to the calibration sample lists or
\* to the smile-degree aggregate
SampleFed ==
    \/ calibrationBlendValues' # calibrationBlendValues
    \/ smileDegrees' # smileDegrees

\* the step fed at most one sample
AtMostOneSampleFed ==
    /\ \A k \in Categories :
          Len(calibrationBlendValues'[k]) <= Len(calibrationBlendValues[k]) + 1
    /\ Len(smileDegrees') <= Len(smileDegrees) + 1

\* C18: the detector is invoked at most once per distinct video frame.  A
\* tick of either loop that finds video.currentTime equal to the shared
\* lastVideoTime calls no detectForVideo and feeds no sample; a tick that
\* feeds a sample feeds one and has recorded the frame's time, so that the
\* ticks which follow on the same frame are of the first kind.
C18_OneDetectionPerVideoFrame ==
    [][AnimationFrame =>
          /\ lastVideoTime = videoTime
                => UNCHANGED << lastVideoTime, calibrationBlendValues,
                                smileDegrees >>
          /\ SampleFed
                => /\ lastVideoTime # videoTime
                   /\ lastVideoTime' = videoTime
                   /\ AtMostOneSampleFed]_vars

\* The first frame of the video was sampled once by a running pass, and the
\* callbacks scheduled since have all run on that same frame: none of them
\* is pending any more and the lists hold the one sample.
C18_SameFrameTickedAgain ==
    /\ lastOp = "animationFrame"
    /\ mounted /\ serviceReady
    /\ calibrationStatus = DOING /\ video # NoVideo
    /\ videoTime = 0 /\ lastVideoTime = 0
    /\ calibrationFrames = 1
    /\ Len(calibrationBlendValues["mouthSmileLeft"]) = 1
    /\ raf = << >>

\* the timer that fires was armed by an earlier startCalibration() than the
\* one that started the pass now running: the running pass's own timer, the
\* youngest, is still pending behind it
StaleExpiry ==
    /\ WindowExpiry
    /\ Len(timers) >= 2
    /\ mounted
    /\ calibrationStatus = DOING

\* C19: a window-expiry timer armed by an earlier startCalibration() (one
\* stopped early or superseded by a restart) never moves a later pass to
\* DONE before that pass's own window has elapsed, and never stores that
\* pass's partially collected samples as a profile.
C19_StaleTimerLeavesLaterPassAlone ==
    [][StaleExpiry
          => /\ calibrationStatus' = DOING
             /\ UNCHANGED << video, blendValuesFromCalibration,
                             smileBlendValuesFromCalibration >>]_vars

\* C20: the prediction operations leave the calibration session untouched:
\* startPrediction() and stopPrediction() change neither the calibration
\* status nor the calibration sample buffers nor the stored profiles,
\* whatever state the calibration session is in.
C20_PredictionLeavesCalibrationAlone ==
    [][(StartPrediction \/ StopPrediction)
          => UNCHANGED << calibrationStatus, calibrationBlendValues,
                          blendValuesFromCalibration,
                          smileBlendValuesFromCalibration >>]_vars

====
